---- MODULE Spec2Model ----
(***************************************************************************)
(* Reverse-mode automatic differentiation on an expression DAG.            *)
(*                                                                         *)
(* Three programs of the repository are modelled:                          *)
(*   backprop_oop.py   (Spec)     graph, forward, backward with grad       *)
(*   backprop.py       (SpecBp)   the earlier revision with adjoint        *)
(*   derive_numerical_symbolic_forward.py (SpecExpr)  eval, derive_*       *)
(*                                                                         *)
(* Python's None is the empty sequence, a set value v is <<v>>.  Numbers   *)
(* are integers; math.exp, a floating-point library function, is kept as   *)
(* a fixed integer-valued function (MathExp).                              *)
(***************************************************************************)
EXTENDS Integers, Sequences, FiniteSets, TLC

\* ---------------------------------------------------------------- bounds
MaxNodes == 3
MaxCalls == 2
MaxBackward == 2

\* The inputs callers draw from.
Names == {"x1", "x2"}
NumVals == {5}
Seeds == {1, 2}
Envs ==
  { <<>>,
    [n \in {"x1"} |-> 2],
    [n \in Names |-> IF n = "x1" THEN 2 ELSE 3],
    [n \in Names |-> IF n = "x1" THEN 3 ELSE 2] }

\* ---------------------------------------------------------------- values
None == <<>>
Some(v) == <<v>>

MathExp(v) == 2 * v + 1

VARIABLES
  nodes,     \* idm.id_to_node: node w<i> is nodes[i]
  parents,   \* Op.parents of each node, in append order
  fwd,       \* Op.fwd
  darg,      \* UnaryOp.darg
  dlhs,      \* BinaryOp.dlhs
  drhs,      \* BinaryOp.drhs
  grad,      \* Op.grad
  last,      \* the call made last and how it ended
  pass,      \* the last forward call, when it succeeded: its root and env
  clean,     \* every grad below pass.root was unset when the backward calls in seeds began
  seeds,     \* seeds of the backward(pass.root, s) calls made since
  prev,      \* an earlier complete cycle on the same root, reset since
  ncalls,    \* evaluator calls made so far
  pc,        \* the caller: "free" (any call), or its place in the two-cycle script
  ex,        \* derive_numerical_symbolic_forward.py: an expression, the arguments, the results
  bp         \* backprop.py: its graph, its nodes' fields, the calls made on the expression built last

vars == <<nodes, parents, fwd, darg, dlhs, drhs, grad, last, pass, clean, seeds, prev, ncalls, pc, ex, bp>>

\* ---------------------------------------------------------------- derive_numerical_symbolic_forward.py
MaxOps == 2

ExprNums == {2, 4}
ExprNames == {"x", "y"}
ExprVars == ExprNames \cup {"z"}
ExprEnvs ==
  { [n \in {"x"} |-> 1],
    [n \in ExprNames |-> IF n = "x" THEN 1 ELSE 3],
    [n \in ExprNames |-> IF n = "x" THEN 2 ELSE 5] }

NumberExpr(num) == [kind |-> "Number", num |-> num]
VarExpr(name) == [kind |-> "Var", name |-> name]
AddExpr(lhs, rhs) == [kind |-> "Add", lhs |-> lhs, rhs |-> rhs]
TimesExpr(lhs, rhs) == [kind |-> "Times", lhs |-> lhs, rhs |-> rhs]

\* env[self.name] raises KeyError for a name env does not bind; eval and
\* derive_forward visit every leaf, so they raise exactly when one is unbound.
RECURSIVE NamesOf(_)
NamesOf(e) ==
  IF e.kind = "Number" THEN {}
  ELSE IF e.kind = "Var" THEN {e.name}
  ELSE NamesOf(e.lhs) \cup NamesOf(e.rhs)

RECURSIVE eval(_, _)
eval(e, env) ==
  IF e.kind = "Number" THEN e.num
  ELSE IF e.kind = "Var" THEN env[e.name]
  ELSE IF e.kind = "Add" THEN eval(e.lhs, env) + eval(e.rhs, env)
  ELSE eval(e.lhs, env) * eval(e.rhs, env)

RECURSIVE derive_symbolic(_, _)
derive_symbolic(e, var) ==
  IF e.kind = "Number" THEN NumberExpr(0)
  ELSE IF e.kind = "Var" THEN NumberExpr(IF var = e.name THEN 1 ELSE 0)
  ELSE IF e.kind = "Add" THEN AddExpr(derive_symbolic(e.lhs, var), derive_symbolic(e.rhs, var))
  ELSE AddExpr(TimesExpr(derive_symbolic(e.lhs, var), e.rhs),
               TimesExpr(e.lhs, derive_symbolic(e.rhs, var)))

\* faulty variant: the product rule without its cross terms
TimesForwardNaive(l, r) == <<l[1] * r[1], l[2] * r[2]>>

\* (lhs*rhs, lhs_prime*rhs + lhs*rhs_prime)
TimesForward(l, r) == <<l[1] * r[1], l[2] * r[1] + l[1] * r[2]>>

RECURSIVE derive_forward(_, _, _)
derive_forward(e, env, var) ==
  IF e.kind = "Number" THEN <<e.num, 0>>
  ELSE IF e.kind = "Var" THEN <<env[e.name], IF e.name = var THEN 1 ELSE 0>>
  ELSE LET l == derive_forward(e.lhs, env, var)
           r == derive_forward(e.rhs, env, var)
       IN IF e.kind = "Add" THEN <<l[1] + r[1], l[2] + r[2]>>
          ELSE TimesForward(l, r)

Leaves == {NumberExpr(n) : n \in ExprNums} \cup {VarExpr(v) : v \in ExprNames}

RECURSIVE ExprsWithOps(_)
ExprsWithOps(k) ==
  IF k = 0 THEN Leaves
  ELSE UNION { UNION { {AddExpr(l, r), TimesExpr(l, r)} :
                         l \in ExprsWithOps(i), r \in ExprsWithOps(k - 1 - i) } :
               i \in 0..(k - 1) }

Exprs == UNION {ExprsWithOps(k) : k \in 0..MaxOps}

NoExpr == [expr |-> NumberExpr(0), env |-> <<>>, var |-> "", ev |-> None, df |-> None, ds |-> None]

oopVars == <<nodes, parents, fwd, darg, dlhs, drhs, grad, last, pass, clean, seeds, prev, ncalls, pc>>

\* expr.eval(env)
ExprEval ==
  /\ ex.ev = None
  /\ ex' = [ex EXCEPT !.ev = IF NamesOf(ex.expr) \subseteq DOMAIN ex.env
                             THEN <<"ok", eval(ex.expr, ex.env)>>
                             ELSE <<"KeyError">>]
  /\ UNCHANGED <<oopVars, bp>>

\* expr.derive_forward(env, var)
ExprDeriveForward ==
  /\ ex.df = None
  /\ ex' = [ex EXCEPT !.df = IF NamesOf(ex.expr) \subseteq DOMAIN ex.env
                             THEN <<"ok", derive_forward(ex.expr, ex.env, ex.var)>>
                             ELSE <<"KeyError">>]
  /\ UNCHANGED <<oopVars, bp>>

\* expr.derive_symbolic(var).eval(env)
ExprDeriveSymbolic ==
  /\ ex.ds = None
  /\ ex' = [ex EXCEPT !.ds =
              LET d == derive_symbolic(ex.expr, ex.var) IN
              IF NamesOf(d) \subseteq DOMAIN ex.env
              THEN <<"ok", eval(d, ex.env)>>
              ELSE <<"KeyError">>]
  /\ UNCHANGED <<oopVars, bp>>

\* ---------------------------------------------------------------- graph
NumberNode(v) == [kind |-> "Number", value |-> v, name |-> "", arg |-> 0, lhs |-> 0, rhs |-> 0]
VarNode(nm) == [kind |-> "Var", value |-> 0, name |-> nm, arg |-> 0, lhs |-> 0, rhs |-> 0]
ExpOpNode(a) == [kind |-> "ExpOp", value |-> 0, name |-> "", arg |-> a, lhs |-> 0, rhs |-> 0]
MulOpNode(l, r) == [kind |-> "MulOp", value |-> 0, name |-> "", arg |-> 0, lhs |-> l, rhs |-> r]
AddOpNode(l, r) == [kind |-> "AddOp", value |-> 0, name |-> "", arg |-> 0, lhs |-> l, rhs |-> r]

IsNullary(nd) == nd.kind \in {"Number", "Var"}
IsUnary(nd) == nd.kind = "ExpOp"
IsBinary(nd) == nd.kind \in {"MulOp", "AddOp"}

\* The operand slots of a node, in the order the code visits them.
Operands(nd) ==
  IF IsUnary(nd) THEN <<nd.arg>>
  ELSE IF IsBinary(nd) THEN <<nd.lhs, nd.rhs>>
  ELSE <<>>

RECURSIVE ReachIn(_, _)
ReachIn(ns, n) ==
  LET ops == Operands(ns[n])
  IN {n} \cup UNION {ReachIn(ns, ops[i]) : i \in DOMAIN ops}

Reach(n) == ReachIn(nodes, n)

\* Op.__init__: parents = [], fwd = None, grad = None
\* UnaryOp.__init__ / BinaryOp.__init__: append self to each operand's parents
UnaryRegister(ps, a, self) == Append([ps EXCEPT ![a] = Append(@, self)], <<>>)

\* faulty variant: an operator registers only once on a node it uses in both slots
BinaryRegisterOnce(ps, l, r, self) ==
  LET p1 == [ps EXCEPT ![l] = Append(@, self)]
      p2 == IF r = l THEN p1 ELSE [p1 EXCEPT ![r] = Append(@, self)]
  IN Append(p2, <<>>)

BinaryRegister(ps, l, r, self) ==
  LET p1 == [ps EXCEPT ![l] = Append(@, self)]
      p2 == [p1 EXCEPT ![r] = Append(@, self)]
  IN Append(p2, <<>>)

NoCall == [op |-> "new", root |-> 0, env |-> <<>>, seed |-> 0, res |-> "ok", ret |-> None]

Construct(nd, ps) ==
  /\ Len(nodes) < MaxNodes
  /\ pc = "build" \/ (pc = "free" /\ ncalls = 0)
  /\ nodes' = Append(nodes, nd)
  /\ parents' = ps
  /\ fwd' = Append(fwd, None)
  /\ darg' = Append(darg, None)
  /\ dlhs' = Append(dlhs, None)
  /\ drhs' = Append(drhs, None)
  /\ grad' = Append(grad, None)
  /\ last' = NoCall
  /\ UNCHANGED <<pass, clean, seeds, prev, ncalls, pc, ex, bp>>

NewNumber == \E v \in NumVals : Construct(NumberNode(v), Append(parents, <<>>))

NewVar == \E nm \in Names : Construct(VarNode(nm), Append(parents, <<>>))

NewExpOp ==
  \E a \in 1..Len(nodes) :
    Construct(ExpOpNode(a), UnaryRegister(parents, a, Len(nodes) + 1))

NewMulOp ==
  \E l \in 1..Len(nodes), r \in 1..Len(nodes) :
    Construct(MulOpNode(l, r), BinaryRegister(parents, l, r, Len(nodes) + 1))

NewAddOp ==
  \E l \in 1..Len(nodes), r \in 1..Len(nodes) :
    Construct(AddOpNode(l, r), BinaryRegister(parents, l, r, Len(nodes) + 1))

\* ---------------------------------------------------------------- forward
\* The mutable fields of all nodes, threaded through the recursion.
Fields == [fwd |-> fwd, darg |-> darg, dlhs |-> dlhs, drhs |-> drhs, grad |-> grad]

Ok(st, v) == [st |-> st, res |-> "ok", ret |-> Some(v)]
Raise(st, e) == [st |-> st, res |-> e, ret |-> None]

NumberForward(st, n) ==
  Ok([st EXCEPT !.fwd[n] = Some(nodes[n].value)], nodes[n].value)

\* faulty variant: an unbound name silently reads as 0
VarForwardDefault(st, n, env) ==
  IF nodes[n].name \in DOMAIN env
  THEN Ok([st EXCEPT !.fwd[n] = Some(env[nodes[n].name])], env[nodes[n].name])
  ELSE Ok([st EXCEPT !.fwd[n] = Some(0)], 0)

VarForward(st, n, env) ==
  IF nodes[n].name \in DOMAIN env
  THEN Ok([st EXCEPT !.fwd[n] = Some(env[nodes[n].name])], env[nodes[n].name])
  ELSE Raise(st, "KeyError")

\* av, lv, rv: what the operands' forward calls returned; st: the fields after them
ExpOpForward(st, n, av) ==
  LET s1 == [st EXCEPT !.fwd[n] = Some(MathExp(av))]
  IN Ok([s1 EXCEPT !.darg[n] = Some(MathExp(s1.fwd[nodes[n].arg][1]))], MathExp(av))

\* faulty variant: the local derivatives are swapped
MulOpForwardSwapped(st, n, lv, rv) ==
  LET s1 == [st EXCEPT !.fwd[n] = Some(lv * rv)]
      s2 == [s1 EXCEPT !.dlhs[n] = s1.fwd[nodes[n].lhs]]
  IN Ok([s2 EXCEPT !.drhs[n] = s2.fwd[nodes[n].rhs]], lv * rv)

\* faulty variant: local derivatives computed once and kept by later passes
MulOpForwardCached(st, n, lv, rv) ==
  LET s1 == [st EXCEPT !.fwd[n] = Some(lv * rv)]
      s2 == [s1 EXCEPT !.dlhs[n] = IF @ = None THEN s1.fwd[nodes[n].rhs] ELSE @]
  IN Ok([s2 EXCEPT !.drhs[n] = IF @ = None THEN s2.fwd[nodes[n].lhs] ELSE @], lv * rv)

MulOpForward(st, n, lv, rv) ==
  LET s1 == [st EXCEPT !.fwd[n] = Some(lv * rv)]
      s2 == [s1 EXCEPT !.dlhs[n] = s1.fwd[nodes[n].rhs]]
  IN Ok([s2 EXCEPT !.drhs[n] = s2.fwd[nodes[n].lhs]], lv * rv)

AddOpForward(st, n, lv, rv) ==
  LET s1 == [st EXCEPT !.fwd[n] = Some(lv + rv)]
  IN Ok([s1 EXCEPT !.dlhs[n] = Some(1), !.drhs[n] = Some(1)], lv + rv)

RECURSIVE ForwardCall(_, _, _)
ForwardCall(st, n, env) ==
  LET nd == nodes[n] IN
  IF nd.kind = "Number" THEN NumberForward(st, n)
  ELSE IF nd.kind = "Var" THEN VarForward(st, n, env)
  ELSE IF nd.kind = "ExpOp" THEN
    LET a == ForwardCall(st, nd.arg, env) IN
    IF a.res # "ok" THEN a ELSE ExpOpForward(a.st, n, a.ret[1])
  ELSE
    LET l == ForwardCall(st, nd.lhs, env) IN
    IF l.res # "ok" THEN l ELSE
    LET r == ForwardCall(l.st, nd.rhs, env) IN
    IF r.res # "ok" THEN r ELSE
    IF nd.kind = "MulOp" THEN MulOpForward(r.st, n, l.ret[1], r.ret[1])
    ELSE AddOpForward(r.st, n, l.ret[1], r.ret[1])

GradsUnset(g, R) == \A n \in R : g[n] = None

\* The caller evaluates the expression it built last (z, lines 236-243).
Top == Len(nodes)

\* z.forward(env), called on root r
DoForward(r, env) ==
  LET out == ForwardCall(Fields, r, env) IN
  /\ fwd' = out.st.fwd
  /\ darg' = out.st.darg
  /\ dlhs' = out.st.dlhs
  /\ drhs' = out.st.drhs
  /\ last' = [op |-> "forward", root |-> r, env |-> env, seed |-> 0,
              res |-> out.res, ret |-> out.ret]
  /\ pass' = IF out.res = "ok" THEN Some([root |-> r, env |-> env]) ELSE None
  /\ clean' = (out.res = "ok" /\ GradsUnset(grad, Reach(r)))
  /\ seeds' = <<>>
  /\ prev' = IF out.res = "ok" /\ prev # None /\ prev[1].root = r
                /\ GradsUnset(grad, Reach(r))
             THEN prev ELSE None
  /\ UNCHANGED <<nodes, parents, grad>>

Forward ==
  \E r \in {Top}, env \in Envs :
    /\ r > 0
    /\ pc = "free"
    /\ ncalls < MaxCalls
    /\ ncalls' = ncalls + 1
    /\ DoForward(r, env)
    /\ UNCHANGED <<pc, ex, bp>>

\* ---------------------------------------------------------------- backward
\* if self.grad is None: self.grad = parent_adjoint, else: self.grad += parent_adjoint
\* faulty variant: grad is overwritten, not accumulated
NullaryGradOverwrite(g, adj) == Some(adj)

\* faulty variant: the accumulation is dropped once a grad is set
NullaryGradKeepFirst(g, adj) == IF g = None THEN Some(adj) ELSE g

NullaryGrad(g, adj) == IF g = None THEN Some(adj) ELSE Some(g[1] + adj)
UnaryGrad(g, adj) == IF g = None THEN Some(adj) ELSE Some(g[1] + adj)
BinaryGrad(g, adj) == IF g = None THEN Some(adj) ELSE Some(g[1] + adj)

\* self.darg * parent_adjoint; None * int raises TypeError
\* faulty variant: the parent's adjoint is not multiplied in
EdgeAdjointLocalOnly(d, adj) == d

EdgeAdjoint(d, adj) == IF d = None THEN None ELSE Some(d[1] * adj)

RECURSIVE BackwardCall(_, _, _)
BackwardCall(st, n, adj) ==
  LET nd == nodes[n] IN
  IF IsNullary(nd) THEN
    [st |-> [st EXCEPT !.grad[n] = NullaryGrad(@, adj)], res |-> "ok"]
  ELSE IF IsUnary(nd) THEN
    LET s1 == [st EXCEPT !.grad[n] = UnaryGrad(@, adj)]
        a == EdgeAdjoint(s1.darg[n], adj)
    IN IF a = None THEN [st |-> s1, res |-> "TypeError"]
       ELSE BackwardCall(s1, nd.arg, a[1])
  ELSE
    LET s1 == [st EXCEPT !.grad[n] = BinaryGrad(@, adj)]
        a == EdgeAdjoint(s1.dlhs[n], adj)
    IN IF a = None THEN [st |-> s1, res |-> "TypeError"] ELSE
       LET l == BackwardCall(s1, nd.lhs, a[1]) IN
       IF l.res # "ok" THEN l ELSE
       LET b == EdgeAdjoint(l.st.drhs[n], adj) IN
       IF b = None THEN [st |-> l.st, res |-> "TypeError"]
       ELSE BackwardCall(l.st, nd.rhs, b[1])

\* z.backward(s), called on root r
DoBackward(r, s) ==
  LET out == BackwardCall(Fields, r, s)
      onPass == out.res = "ok" /\ pass # None /\ pass[1].root = r /\ clean
  IN
  /\ grad' = out.st.grad
  /\ last' = [op |-> "backward", root |-> r, env |-> <<>>, seed |-> s,
              res |-> out.res, ret |-> None]
  /\ clean' = onPass
  /\ seeds' = IF onPass THEN Append(seeds, s) ELSE <<>>
  /\ prev' = IF onPass /\ prev # None /\ prev[1].root = r THEN prev ELSE None
  /\ UNCHANGED <<nodes, parents, fwd, darg, dlhs, drhs, pass>>

Backward ==
  \E r \in {Top}, s \in Seeds :
    /\ r > 0
    /\ pc = "free"
    /\ ncalls < MaxCalls
    /\ ncalls' = ncalls + 1
    /\ DoBackward(r, s)
    /\ UNCHANGED <<pc, ex, bp>>

\* The caller's reset between cycles: grad back to None (as Op.__init__ leaves it)
\* on every node reachable from r.
RECURSIVE ResetUpTo(_, _, _)
ResetUpTo(g, R, k) ==
  IF k = 0 THEN <<>>
  ELSE Append(ResetUpTo(g, R, k - 1), IF k \in R THEN None ELSE g[k])

ResetGrads(g, R) == ResetUpTo(g, R, Len(g))

DoReset(r) ==
  LET g == ResetGrads(grad, Reach(r))
      cycle == pass # None /\ pass[1].root = r /\ clean /\ seeds # <<>>
  IN
  /\ grad' = g
  /\ last' = [op |-> "reset", root |-> r, env |-> <<>>, seed |-> 0,
              res |-> "ok", ret |-> None]
  /\ clean' = (pass # None /\ GradsUnset(g, Reach(pass[1].root)))
  /\ seeds' = <<>>
  /\ prev' = IF cycle THEN Some([root |-> r, env |-> pass[1].env]) ELSE None
  /\ UNCHANGED <<nodes, parents, fwd, darg, dlhs, drhs, pass>>

Reset ==
  \E r \in {Top} :
    /\ r > 0
    /\ pc = "free"
    /\ ncalls < MaxCalls
    /\ ncalls' = ncalls + 1
    /\ DoReset(r)
    /\ UNCHANGED <<pc, ex, bp>>

\* ---------------------------------------------------------------- backprop.py
MaxBpCalls == 3

\* Op.__init__: fwd_val = None; NullaryOp.__init__: adjoint = 0 (operators have
\* no adjoint); BinaryOp.__init__: dlhs = drhs = None, self appended to the
\* operands' parents.
NoBp == [nodes |-> <<>>, parents |-> <<>>, fwd_val |-> <<>>, adjoint |-> <<>>,
         dlhs |-> <<>>, drhs |-> <<>>, calls |-> <<>>]

BpConstruct(nd, ps) ==
  /\ pc = "bp"
  /\ Len(bp.nodes) < MaxNodes
  /\ bp.calls = <<>>
  /\ bp' = [bp EXCEPT !.nodes = Append(@, nd),
                      !.parents = ps,
                      !.fwd_val = Append(@, None),
                      !.adjoint = Append(@, IF IsNullary(nd) THEN Some(0) ELSE None),
                      !.dlhs = Append(@, None),
                      !.drhs = Append(@, None)]
  /\ UNCHANGED <<oopVars, ex>>

BpNewNumber == \E v \in NumVals : BpConstruct(NumberNode(v), Append(bp.parents, <<>>))

BpNewVar == \E nm \in Names : BpConstruct(VarNode(nm), Append(bp.parents, <<>>))

BpNewMulOp ==
  \E l \in 1..Len(bp.nodes), r \in 1..Len(bp.nodes) :
    BpConstruct(MulOpNode(l, r), BinaryRegister(bp.parents, l, r, Len(bp.nodes) + 1))

BpNewAddOp ==
  \E l \in 1..Len(bp.nodes), r \in 1..Len(bp.nodes) :
    BpConstruct(AddOpNode(l, r), BinaryRegister(bp.parents, l, r, Len(bp.nodes) + 1))

\* forward(env): st is bp, threaded through the recursion
RECURSIVE BpForwardCall(_, _, _)
BpForwardCall(st, n, env) ==
  LET nd == st.nodes[n] IN
  IF nd.kind = "Number" THEN Ok([st EXCEPT !.fwd_val[n] = Some(nd.value)], nd.value)
  ELSE IF nd.kind = "Var" THEN
    IF nd.name \in DOMAIN env
    THEN Ok([st EXCEPT !.fwd_val[n] = Some(env[nd.name])], env[nd.name])
    ELSE Raise(st, "KeyError")
  ELSE
    LET l == BpForwardCall(st, nd.lhs, env) IN
    IF l.res # "ok" THEN l ELSE
    LET r == BpForwardCall(l.st, nd.rhs, env) IN
    IF r.res # "ok" THEN r ELSE
    LET v == IF nd.kind = "MulOp" THEN l.ret[1] * r.ret[1] ELSE l.ret[1] + r.ret[1]
    IN Ok([r.st EXCEPT !.fwd_val[n] = Some(v)], v)

\* backward_local_grad()
RECURSIVE BpLocalGradCall(_, _)
BpLocalGradCall(st, n) ==
  LET nd == st.nodes[n] IN
  IF IsNullary(nd) THEN st
  ELSE
    LET s1 == IF nd.kind = "MulOp"
              THEN [st EXCEPT !.dlhs[n] = st.fwd_val[nd.rhs], !.drhs[n] = st.fwd_val[nd.lhs]]
              ELSE [st EXCEPT !.dlhs[n] = Some(1), !.drhs[n] = Some(1)]
    IN BpLocalGradCall(BpLocalGradCall(s1, nd.lhs), nd.rhs)

\* MulOp.backward: self.dlhs *= start_value; self.drhs *= start_value
\* (None *= number raises TypeError; shown as None)
MulOpScale(d, start_value) == IF d = None THEN None ELSE Some(d[1] * start_value)

\* AddOp.backward: "self.dlhs * start_value" is an expression statement, its
\* product is dropped and dlhs stays as it was; "self.drhs *= start_value" scales.
AddOpLhs(d, start_value) == d
AddOpRhs(d, start_value) == IF d = None THEN None ELSE Some(d[1] * start_value)

RECURSIVE BpBackwardCall(_, _, _)
BpBackwardCall(st, n, start_value) ==
  LET nd == st.nodes[n] IN
  IF IsNullary(nd) THEN
    [st |-> [st EXCEPT !.adjoint[n] = Some(@[1] + start_value)], res |-> "ok"]
  ELSE IF st.dlhs[n] = None THEN [st |-> st, res |-> "TypeError"]
  ELSE
    LET s1 == [st EXCEPT !.dlhs[n] = IF nd.kind = "MulOp" THEN MulOpScale(@, start_value)
                                     ELSE AddOpLhs(@, start_value)]
    IN IF s1.drhs[n] = None THEN [st |-> s1, res |-> "TypeError"] ELSE
       LET s2 == [s1 EXCEPT !.drhs[n] = IF nd.kind = "MulOp" THEN MulOpScale(@, start_value)
                                        ELSE AddOpRhs(@, start_value)]
           l == BpBackwardCall(s2, nd.lhs, s2.dlhs[n][1])
       IN IF l.res # "ok" THEN l
          ELSE BpBackwardCall(l.st, nd.rhs, l.st.drhs[n][1])

BpTop == Len(bp.nodes)

BpForward ==
  \E env \in Envs :
    LET out == BpForwardCall(bp, BpTop, env) IN
    /\ pc = "bp"
    /\ BpTop > 0
    /\ Len(bp.calls) < MaxBpCalls
    /\ bp' = [out.st EXCEPT !.calls = Append(@, [op |-> "forward", env |-> env, seed |-> 0, res |-> out.res])]
    /\ UNCHANGED <<oopVars, ex>>

BpBackwardLocalGrad ==
  /\ pc = "bp"
  /\ BpTop > 0
  /\ Len(bp.calls) < MaxBpCalls
  /\ bp' = [BpLocalGradCall(bp, BpTop) EXCEPT
              !.calls = Append(@, [op |-> "backward_local_grad", env |-> <<>>, seed |-> 0, res |-> "ok"])]
  /\ UNCHANGED <<oopVars, ex>>

BpBackward ==
  \E s \in Seeds :
    LET out == BpBackwardCall(bp, BpTop, s) IN
    /\ pc = "bp"
    /\ BpTop > 0
    /\ Len(bp.calls) < MaxBpCalls
    /\ bp' = [out.st EXCEPT !.calls = Append(@, [op |-> "backward", env |-> <<>>, seed |-> s, res |-> out.res])]
    /\ UNCHANGED <<oopVars, ex>>

\* ---------------------------------------------------------------- the two-cycle caller
\* build z; z.forward(env1); z.backward(1) k times; reset; z.forward(env2); z.backward(1) ...
CycleForward ==
  \E env \in Envs :
    /\ Top > 0
    /\ pc \in {"build", "reset"}
    /\ DoForward(Top, env)
    /\ pc' = IF last'.res # "ok" THEN "aborted"
             ELSE IF pc = "build" THEN "first" ELSE "second"
    /\ UNCHANGED <<ncalls, ex, bp>>

CycleBackward ==
  /\ pc \in {"first", "second"}
  /\ Len(seeds) < MaxBackward
  /\ DoBackward(Top, 1)
  /\ UNCHANGED <<pc, ncalls, ex, bp>>

CycleReset ==
  /\ pc = "first"
  /\ seeds # <<>>
  /\ DoReset(Top)
  /\ pc' = "reset"
  /\ UNCHANGED <<ncalls, ex, bp>>

\* ---------------------------------------------------------------- specification
Init ==
  /\ nodes = <<>>
  /\ parents = <<>>
  /\ fwd = <<>>
  /\ darg = <<>>
  /\ dlhs = <<>>
  /\ drhs = <<>>
  /\ grad = <<>>
  /\ last = NoCall
  /\ pass = None
  /\ clean = FALSE
  /\ seeds = <<>>
  /\ prev = None
  /\ ncalls = 0
  /\ pc = "free"
  /\ ex = NoExpr
  /\ bp = NoBp

InitCycle ==
  /\ nodes = <<>>
  /\ parents = <<>>
  /\ fwd = <<>>
  /\ darg = <<>>
  /\ dlhs = <<>>
  /\ drhs = <<>>
  /\ grad = <<>>
  /\ last = NoCall
  /\ pass = None
  /\ clean = FALSE
  /\ seeds = <<>>
  /\ prev = None
  /\ ncalls = 0
  /\ pc = "build"
  /\ ex = NoExpr
  /\ bp = NoBp

Next ==
  \/ NewNumber
  \/ NewVar
  \/ NewExpOp
  \/ NewMulOp
  \/ NewAddOp
  \/ Forward
  \/ Backward
  \/ Reset

Spec == Init /\ [][Next]_vars

NextCycle ==
  \/ NewNumber
  \/ NewVar
  \/ NewExpOp
  \/ NewMulOp
  \/ NewAddOp
  \/ CycleForward
  \/ CycleBackward
  \/ CycleReset

SpecCycle == InitCycle /\ [][NextCycle]_vars

InitExpr ==
  /\ nodes = <<>>
  /\ parents = <<>>
  /\ fwd = <<>>
  /\ darg = <<>>
  /\ dlhs = <<>>
  /\ drhs = <<>>
  /\ grad = <<>>
  /\ last = NoCall
  /\ pass = None
  /\ clean = FALSE
  /\ seeds = <<>>
  /\ prev = None
  /\ ncalls = 0
  /\ pc = "expr"
  /\ bp = NoBp
  /\ \E e \in Exprs, env \in ExprEnvs, var \in ExprVars :
       ex = [expr |-> e, env |-> env, var |-> var, ev |-> None, df |-> None, ds |-> None]

NextExpr ==
  \/ ExprEval
  \/ ExprDeriveForward
  \/ ExprDeriveSymbolic

SpecExpr == InitExpr /\ [][NextExpr]_vars

InitBp ==
  /\ nodes = <<>>
  /\ parents = <<>>
  /\ fwd = <<>>
  /\ darg = <<>>
  /\ dlhs = <<>>
  /\ drhs = <<>>
  /\ grad = <<>>
  /\ last = NoCall
  /\ pass = None
  /\ clean = FALSE
  /\ seeds = <<>>
  /\ prev = None
  /\ ncalls = 0
  /\ pc = "bp"
  /\ ex = NoExpr
  /\ bp = NoBp

NextBp ==
  \/ BpNewNumber
  \/ BpNewVar
  \/ BpNewMulOp
  \/ BpNewAddOp
  \/ BpForward
  \/ BpBackwardLocalGrad
  \/ BpBackward

SpecBp == InitBp /\ [][NextBp]_vars

\* ================================================================ properties
\* ---------------------------------------------------------------- reference values
\* The arithmetic value of the expression rooted at n under env.
RECURSIVE ValueOf(_, _)
ValueOf(n, env) ==
  LET nd == nodes[n] IN
  IF nd.kind = "Number" THEN nd.value
  ELSE IF nd.kind = "Var" THEN env[nd.name]
  ELSE IF nd.kind = "ExpOp" THEN MathExp(ValueOf(nd.arg, env))
  ELSE IF nd.kind = "MulOp" THEN ValueOf(nd.lhs, env) * ValueOf(nd.rhs, env)
  ELSE ValueOf(nd.lhs, env) + ValueOf(nd.rhs, env)

\* The Add/Mul expression rooted at n, as an Expr of derive_numerical_symbolic_forward.py.
RECURSIVE ToExpr(_)
ToExpr(n) ==
  LET nd == nodes[n] IN
  IF nd.kind = "Number" THEN NumberExpr(nd.value)
  ELSE IF nd.kind = "Var" THEN VarExpr(nd.name)
  ELSE IF nd.kind = "MulOp" THEN TimesExpr(ToExpr(nd.lhs), ToExpr(nd.rhs))
  ELSE AddExpr(ToExpr(nd.lhs), ToExpr(nd.rhs))

Polynomial(R) == \A n \in R : nodes[n].kind # "ExpOp"

RECURSIVE SumOf(_, _)
SumOf(f, S) ==
  IF S = {} THEN 0
  ELSE LET x == CHOOSE y \in S : TRUE IN f[x] + SumOf(f, S \ {x})

\* What operator p hands to node n through its operand slots: p.grad times the
\* local derivative cached on each slot that holds n.
EdgeTerm(p, n) ==
  LET nd == nodes[p] IN
  (IF IsUnary(nd) /\ nd.arg = n THEN grad[p][1] * darg[p][1] ELSE 0)
  + (IF IsBinary(nd) /\ nd.lhs = n THEN grad[p][1] * dlhs[p][1] ELSE 0)
  + (IF IsBinary(nd) /\ nd.rhs = n THEN grad[p][1] * drhs[p][1] ELSE 0)

EdgeSum(n, R) ==
  LET ops == {p \in R : ~IsNullary(nodes[p])}
  IN SumOf([p \in ops |-> EdgeTerm(p, n)], ops)

\* Operand slots below r that hold n.
InEdges(n, R) ==
  {<<p, i>> \in R \X {1, 2} : i \in DOMAIN Operands(nodes[p]) /\ Operands(nodes[p])[i] = n}

\* One backward(root, seed) has returned on grads that were unset, after a
\* successful forward(root, env).
OneBackwardDone == pass # None /\ clean /\ Len(seeds) = 1

\* ---------------------------------------------------------------- C1
\* C1: after forward(root, env) succeeded and one backward(root, seed) on unset
\* gradients returned, root.grad = seed and every other reachable node's grad is
\* the sum over its incoming operand edges of parent.grad times the cached local
\* derivative of that edge.
C1_ChainRule ==
  OneBackwardDone =>
    LET r == pass[1].root
        R == Reach(r)
    IN /\ grad[r] = Some(seeds[1])
       /\ \A n \in R \ {r} : grad[n] = Some(EdgeSum(n, R))

\* a node with several incoming edges, below a seed other than 1
C1_Witness ==
  /\ OneBackwardDone
  /\ seeds[1] = 2
  /\ \E n \in Reach(pass[1].root) :
       /\ Cardinality(InEdges(n, Reach(pass[1].root))) >= 2
       /\ grad[n] # None /\ grad[n][1] # 0

\* ---------------------------------------------------------------- C2
VarNodes(R, v) == {n \in R : nodes[n].kind = "Var" /\ nodes[n].name = v}

Partial(r, env, v) == derive_forward(ToExpr(r), env, v)[2]

PolyBackwardDone ==
  /\ pass # None /\ clean /\ seeds = <<1>>
  /\ Polynomial(Reach(pass[1].root))

\* C2 as stated: after forward and backward(root, 1) on an Add/Mul graph, the grad
\* of each Var node is the partial derivative of the root with respect to that
\* node's variable, as derive_forward computes it.
C2_EachVarNode ==
  PolyBackwardDone =>
    LET r == pass[1].root IN
    \A n \in Reach(r) :
      nodes[n].kind = "Var" => grad[n] = Some(Partial(r, pass[1].env, nodes[n].name))

\* C2 amended: the grads of the Var nodes that carry one name add up to the
\* partial derivative with respect to that name; a Var node that is the only one
\* of its name holds it alone.
C2_VarNodesSum ==
  PolyBackwardDone =>
    LET r == pass[1].root
        R == Reach(r)
    IN \A v \in Names :
         VarNodes(R, v) # {} =>
           SumOf([n \in VarNodes(R, v) |-> grad[n][1]], VarNodes(R, v))
             = Partial(r, pass[1].env, v)

\* x*x on one shared Var node: grad 2x
C2_Witness ==
  /\ PolyBackwardDone
  /\ \E n \in Reach(pass[1].root) :
       /\ nodes[n].kind = "Var"
       /\ nodes[pass[1].root] = MulOpNode(n, n)
       /\ grad[n] = Some(2 * pass[1].env[nodes[n].name])

\* ---------------------------------------------------------------- C3
ForwardOk == last.op = "forward" /\ last.res = "ok"

\* C3: a successful forward(root, env) returns the value of the expression, leaves
\* on every reachable node the value of its subexpression under env, and on every
\* operator the table's local derivatives at its operands' values of this pass.
C3_ForwardValues ==
  ForwardOk =>
    LET env == last.env IN
    /\ last.ret = Some(ValueOf(last.root, env))
    /\ \A n \in Reach(last.root) :
         /\ fwd[n] = Some(ValueOf(n, env))
         /\ nodes[n].kind = "MulOp" =>
              /\ dlhs[n] = Some(ValueOf(nodes[n].rhs, env))
              /\ drhs[n] = Some(ValueOf(nodes[n].lhs, env))
         /\ nodes[n].kind = "AddOp" => dlhs[n] = Some(1) /\ drhs[n] = Some(1)
         /\ nodes[n].kind = "ExpOp" => darg[n] = Some(MathExp(ValueOf(nodes[n].arg, env)))

\* the second pass over a product of two different variables
C3_Witness ==
  /\ ForwardOk
  /\ ncalls = 2
  /\ nodes[last.root].kind = "MulOp"
  /\ dlhs[last.root] # drhs[last.root]
  /\ "x1" \in DOMAIN last.env /\ last.env["x1"] = 3

\* ---------------------------------------------------------------- C4
Unbound(r, env) ==
  \E n \in Reach(r) : nodes[n].kind = "Var" /\ nodes[n].name \notin DOMAIN env

\* C4 as stated: forward on a graph reaching an unbound Var fails with an
\* UnboundVariableError.
C4_UnboundVariableError ==
  (last.op = "forward" /\ Unbound(last.root, last.env)) =>
    last.res = "UnboundVariableError"

\* C4 amended: it fails with Python's KeyError, which reaches the caller; no value
\* is returned and no default is substituted.
C4_KeyError ==
  (last.op = "forward" /\ Unbound(last.root, last.env)) =>
    /\ last.res = "KeyError"
    /\ last.ret = None

\* the unbound Var is an operand below the root
C4_Witness ==
  /\ last.op = "forward"
  /\ Unbound(last.root, last.env)
  /\ ~IsNullary(nodes[last.root])
  /\ last.res = "KeyError"

\* ---------------------------------------------------------------- C5
ForwardFields(n) == <<fwd[n], darg[n], dlhs[n], drhs[n]>>

\* C5: an aborted forward leaves the fwd and local-derivative fields of the
\* reachable nodes all as they were, or all unset.
C5_AbortAllOrNothing ==
  [][ (last'.op = "forward" /\ last'.res = "KeyError") =>
        LET R == Reach(last'.root) IN
        \/ \A n \in R : ForwardFields(n)' = ForwardFields(n)
        \/ \A n \in R : ForwardFields(n)' = <<None, None, None, None>>
    ]_vars

\* ---------------------------------------------------------------- C6
Blank ==
  LET none == ResetGrads(grad, 1..Len(nodes))
  IN [fwd |-> none, darg |-> none, dlhs |-> none, drhs |-> none, grad |-> none]

\* forward(root, env); backward(root, 1) on a freshly built copy of the graph
FreshCycle(r, env) == BackwardCall(ForwardCall(Blank, r, env).st, r, 1).st

SecondCycleDone == pc = "second" /\ prev # None /\ clean /\ seeds = <<1>>

\* C6: after a first cycle, a reset, forward(root, env2) and backward(root, 1),
\* every node's fwd, local derivatives and grad are those of a fresh copy of the
\* graph after forward(root, env2); backward(root, 1).
C6_SecondCycleFresh ==
  SecondCycleDone => Fields = FreshCycle(Top, pass[1].env)

\* the second environment gives the root another value than the first
C6_Witness ==
  /\ SecondCycleDone
  /\ nodes[Top].kind = "MulOp"
  /\ fwd[Top] # Some(ValueOf(Top, prev[1].env))
  /\ \E n \in Reach(Top) : Cardinality(InEdges(n, Reach(Top))) >= 2

\* ---------------------------------------------------------------- C7
\* the grads one backward(root, 1) gives on unset grads
SingleBackward(r) == BackwardCall([Fields EXCEPT !.grad = Blank.grad], r, 1).st.grad

\* C7: k consecutive backward(root, 1) calls after one forward, starting on unset
\* grads, leave every reachable node's grad at k times what a single call gives.
C7_Accumulates ==
  (pc \in {"first", "second"} /\ clean /\ seeds # <<>>) =>
    \A n \in Reach(Top) : grad[n] = Some(Len(seeds) * SingleBackward(Top)[n][1])

\* two calls, on a node that already gets two contributions from each
C7_Witness ==
  /\ pc = "first" /\ clean /\ Len(seeds) = 2
  /\ \E n \in Reach(Top) :
       /\ Cardinality(InEdges(n, Reach(Top))) >= 2
       /\ grad[n] # None /\ grad[n][1] # 0

\* ---------------------------------------------------------------- C9
\* The operators using n, once per slot, in construction order.
RECURSIVE UserIds(_, _)
UserIds(n, k) ==
  IF k = 0 THEN <<>>
  ELSE LET before == UserIds(n, k - 1)
           ops == Operands(nodes[k])
           once == IF Len(ops) >= 1 /\ ops[1] = n THEN Append(before, k) ELSE before
       IN IF Len(ops) >= 2 /\ ops[2] = n THEN Append(once, k) ELSE once

ParentsRight == \A n \in 1..Len(nodes) : parents[n] = UserIds(n, Len(nodes))

ParentsStep ==
  /\ Len(nodes') = Len(nodes) + 1 =>
       /\ SubSeq(nodes', 1, Len(nodes)) = nodes
       /\ \A n \in 1..Len(nodes) :
            IF n \in {Operands(nodes'[Len(nodes')])[i] : i \in DOMAIN Operands(nodes'[Len(nodes')])}
            THEN SubSeq(parents'[n], 1, Len(parents[n])) = parents[n]
            ELSE parents'[n] = parents[n]
  /\ last'.op \in {"forward", "backward", "reset"} => parents' = parents /\ nodes' = nodes

\* C9: every parents list holds exactly the operators that use the node, once per
\* slot and in construction order; a construction changes only the lists of the
\* new operator's operands; forward and backward change no list and no operand.
C9_Parents == []ParentsRight /\ [][ParentsStep]_vars

\* an operator registered twice on the node it uses in both slots, calls made since
C9_Witness ==
  /\ ncalls > 0
  /\ last.op = "backward"
  /\ \E n \in 1..Len(nodes) : \E p \in 1..Len(nodes) :
       /\ IsBinary(nodes[p]) /\ nodes[p].lhs = n /\ nodes[p].rhs = n
       /\ parents[n] = <<p, p>>

\* ---------------------------------------------------------------- C10
ExprDone ==
  /\ ex.ev # None /\ ex.df # None /\ ex.ds # None
  /\ NamesOf(ex.expr) \subseteq DOMAIN ex.env

\* C10: for an env binding every variable of the expression, derive_forward(env, var)
\* is the pair (eval(env), derive_symbolic(var).eval(env)), and its second
\* component is 0 when var does not occur in the expression.
C10_ForwardIsSymbolic ==
  ExprDone =>
    /\ ex.df = <<"ok", <<ex.ev[2], ex.ds[2]>>>>
    /\ ex.var \notin NamesOf(ex.expr) => ex.df[2][2] = 0

\* a product of sums, derived by a variable on both sides
C10_Witness ==
  /\ ExprDone
  /\ ex.expr.kind = "Times"
  /\ ex.var \in NamesOf(ex.expr.lhs) \cap NamesOf(ex.expr.rhs)
  /\ ex.df[2][2] # 0

\* ---------------------------------------------------------------- C8
\* The partial derivative of the expression rooted at n with respect to leaf node
\* leaf, at the leaf values of the forward pass.
RECURSIVE LeafPartial(_, _)
LeafPartial(n, leaf) ==
  LET nd == bp.nodes[n] IN
  IF n = leaf THEN 1
  ELSE IF IsNullary(nd) THEN 0
  ELSE IF nd.kind = "AddOp" THEN LeafPartial(nd.lhs, leaf) + LeafPartial(nd.rhs, leaf)
  ELSE LeafPartial(nd.lhs, leaf) * bp.fwd_val[nd.rhs][1]
         + bp.fwd_val[nd.lhs][1] * LeafPartial(nd.rhs, leaf)

BpScriptDone ==
  /\ Len(bp.calls) = 3
  /\ bp.calls[1].op = "forward" /\ bp.calls[1].res = "ok"
  /\ bp.calls[2].op = "backward_local_grad"
  /\ bp.calls[3].op = "backward" /\ bp.calls[3].seed = 1 /\ bp.calls[3].res = "ok"

\* C8: after forward(env), backward_local_grad() and backward(1) on a freshly built
\* Add/Mul graph, every leaf's adjoint is the partial derivative of the root with
\* respect to that leaf.
C8_LeafAdjoints ==
  BpScriptDone =>
    \A n \in ReachIn(bp.nodes, BpTop) :
      IsNullary(bp.nodes[n]) => bp.adjoint[n] = Some(LeafPartial(BpTop, n))

====
